---- MODULE Spec2Model ----
(***************************************************************************)
(* Model of code.py, the DeskCycle game controller main loop: two hall     *)
(* sensors, an enable/disable button, a monotonic clock and a USB HID      *)
(* keyboard sink.  One iteration of `while True` (one tick) is the chain   *)
(*   Sample -> [DetermineDirection -> DetermineSpeed -> SmoothTimeout]     *)
(*          -> DetermineIfStopped                                          *)
(* sequenced by pc; the bracketed part is the action pass.                 *)
(*                                                                         *)
(* Time is an integer count of 1/Unit milliseconds, so that the mean of up *)
(* to five intervals (sum / len) is exact.  Python's False is 0 and None   *)
(* is modelled as 0 for last_switch (whose other values are 1 and 2).      *)
(* debug is 0, so the print statements are not modelled.                   *)
(***************************************************************************)
EXTENDS Integers, Sequences, FiniteSets, TLC

VARIABLES
    ctime,                          \* time.monotonic() read at the top of the tick
    switch1, switch2,               \* analog_bool of the two hall sensors this tick
    last_button, button_state,      \* enable/disable button bookkeeping
    disable_keyboard,
    last_switch,                    \* 0 (None), 1 or 2
    interval_history,               \* sequence of timestamps
    last_activity, inactive_count,
    smoothed_min_timeout_interval,  \* 0 (False) or a time
    actions_ready,
    active_keys,                    \* tracked held keys
    sink_keys,                      \* keys held in the HID keyboard report
    calls,                          \* keyboard.* calls issued during the current tick
    pc,                             \* position inside the loop body
    tick_keys,                      \* history: active_keys at the top of the current tick
    stops,                          \* history: full_stop executions since the last action pass
    reads                           \* history: the values button.value returned during the tick (the last one once the tick is over)

vars == <<ctime, switch1, switch2, last_button, button_state, disable_keyboard,
          last_switch, interval_history, last_activity, inactive_count,
          smoothed_min_timeout_interval, actions_ready, active_keys, sink_keys,
          calls, pc, tick_keys, stops, reads>>

\* ---- units and program constants -----------------------------------------

\* 1 ms = Unit time units; divisible by every window length 1..5.
Unit == 3 * 4 * 5
Ms(n) == n * Unit

analog_threshold == 34100
min_timeout_ms == 191
max_timeout_ms == 380
stop_smoothing == 4
stop_smoothing_scale_ms == 10
sprint_start_ms == 72
sprint_end_ms == 120
sprint_smoothing == 5
disable_sprint == FALSE
idle_notice_ms == 5000
idle_notice_max == 360

min_timeout == Ms(min_timeout_ms)
max_timeout == Ms(max_timeout_ms)
stop_smoothing_scale == Ms(stop_smoothing_scale_ms)
sprint_start == Ms(sprint_start_ms)
sprint_end == Ms(sprint_end_ms)

Max(a, b) == IF a >= b THEN a ELSE b
Min(a, b) == IF a <= b THEN a ELSE b

max_history == Max(stop_smoothing, sprint_smoothing) + 1

KeyW == "W"
KeyS == "S"
KeySHIFT == "SHIFT"

\* ---- bounds ---------------------------------------------------------------

TickMs == 30                    \* duration of a short loop iteration, in ms
StartTicks == 30                \* clock value when the script starts, in short ticks
RunTicks == 17                  \* explored span of the clock after the start
PressTicks == 10                \* explored span when the button is exercised too
AfterStallTicks == 6            \* explored span after the long stall
GapTicks == 13                  \* a slow loop iteration, in short ticks
StallTicks == 170               \* one iteration that blocks for over five seconds
Tk(n) == Ms(n * TickMs)
Dts == {Tk(1), Tk(GapTicks), Tk(StallTicks)}
Raw == {0, analog_threshold - 1, analog_threshold}

\* ---- keyboard functions ---------------------------------------------------
\* A key state K is [active |-> tracked set, sink |-> HID report, calls |-> log].

\* Variant of release_key: the sink call is issued even for a key that is not tracked.
release_key_always(K, keycode, dk) ==
    [active |-> K.active \ {keycode},
     sink   |-> IF dk THEN K.sink ELSE K.sink \ {keycode},
     calls  |-> IF dk THEN K.calls ELSE Append(K.calls, <<"release", keycode>>)]

\* Variant of release_all_keys: active_keys.clear() is missing.
release_all_keys_noclear(K) ==
    [active |-> K.active, sink |-> {}, calls |-> Append(K.calls, <<"release_all">>)]

\* Variant of press_key: the disable_keyboard test is missing.
press_key_unguarded(K, keycode, dk) ==
    [active |-> K.active \cup {keycode},
     sink   |-> K.sink \cup {keycode},
     calls  |-> Append(K.calls, <<"press", keycode>>)]

\* Lines 90-107.
press_key(K, keycode, dk) ==
    [active |-> K.active \cup {keycode},
     sink   |-> IF dk THEN K.sink ELSE K.sink \cup {keycode},
     calls  |-> IF dk THEN K.calls ELSE Append(K.calls, <<"press", keycode>>)]

\* Lines 110-126.
release_key(K, keycode, dk) ==
    IF keycode \in K.active
    THEN [active |-> K.active \ {keycode},
          sink   |-> IF dk THEN K.sink ELSE K.sink \ {keycode},
          calls  |-> IF dk THEN K.calls ELSE Append(K.calls, <<"release", keycode>>)]
    ELSE K

\* Lines 129-144.
release_all_keys(K) ==
    [active |-> {}, sink |-> {}, calls |-> Append(K.calls, <<"release_all">>)]

KeyState == [active |-> active_keys, sink |-> sink_keys, calls |-> calls]

\* ---- interval mean --------------------------------------------------------

RECURSIVE SumSeq(_)
SumSeq(s) == IF s = <<>> THEN 0 ELSE Head(s) + SumSeq(Tail(s))

Last(s, n) == SubSeq(s, Len(s) - n + 1, Len(s))

get_interval_avg_sprint(hist, max_len, current_time) ==
    IF Len(hist) > 0
    THEN LET ml == Min(max_len, Len(hist))
             items == Append(Last(hist, ml), current_time)
             intervals == [i \in 1..(Len(items) - 1) |-> items[i + 1] - items[i]]
         IN  SumSeq(intervals) \div Len(intervals)
    ELSE 0

analog_bool(sensor_value) ==
    IF sensor_value = 0 THEN FALSE ELSE sensor_value >= analog_threshold

\* Variant of full_stop: the interval history is kept.
full_stop_keephistory(K) ==
    [keys |-> release_all_keys(K), history |-> interval_history, smoothed |-> 0]

\* Lines 166-174: release everything, forget the history and the smoothed timeout.
full_stop(K) ==
    [keys |-> release_all_keys(K), history |-> <<>>, smoothed |-> 0]

\* ---- initial state --------------------------------------------------------

Init ==
    /\ ctime = Tk(StartTicks)
    /\ switch1 = FALSE /\ switch2 = FALSE
    /\ last_button \in BOOLEAN
    /\ button_state = TRUE
    /\ disable_keyboard = FALSE
    /\ last_switch = 0
    /\ interval_history = <<>>
    /\ last_activity = Tk(StartTicks)
    /\ inactive_count = 1
    /\ smoothed_min_timeout_interval = 0
    /\ actions_ready = FALSE
    /\ active_keys = {}
    /\ sink_keys = {}
    /\ calls = <<>>
    /\ pc = "loop"
    /\ tick_keys = {}
    /\ stops = 0
    /\ reads = <<last_button>>

\* ---- the loop body --------------------------------------------------------

\* The clock stays inside the explored horizon: a span of `span` short ticks
\* after the start, or AfterStallTicks more once the single long stall is over.
TimeOk(t, span) ==
    \/ t <= Tk(StartTicks + span)
    \/ /\ t >= Tk(StartTicks + StallTicks)
       /\ t <= Tk(StartTicks + StallTicks + AfterStallTicks)

\* Variant of pass_due: the test that neither sensor is active is missing.
pass_due_either(both_sw, either_sw, ready) == ~both_sw /\ ready

\* Variant of pass_due: the actions_ready test is missing.
pass_due_noready(both_sw, either_sw, ready) == ~both_sw /\ ~either_sw

\* Lines 239 and 245: the action pass runs on the first tick with neither sensor
\* active after a tick with both active.
pass_due(both_sw, either_sw, ready) == ~both_sw /\ ready /\ ~either_sw

\* Lines 204-242: read the clock and the sensors, process the button (three
\* reads of button.value: b1, b2, b3), the idle notice, and sensor detection.
Tick(dt, v1, v2, b1, b2, b3) ==
    LET now == ctime + dt
        s1 == analog_bool(v1)
        s2 == analog_bool(v2)
        both_sw == s1 /\ s2
        either_sw == s1 \/ s2
        changed == b1 # last_button
        toggled == changed /\ ~b3
        notice == /\ last_activity # 0
                  /\ now - last_activity > Ms(idle_notice_ms)
                  /\ inactive_count <= idle_notice_max
    IN  /\ pc = "loop"
        /\ ctime' = now
        /\ switch1' = s1
        /\ switch2' = s2
        /\ last_button' = IF changed THEN b2 ELSE last_button
        /\ button_state' = IF toggled THEN ~button_state ELSE button_state
        /\ disable_keyboard' = IF toggled THEN button_state ELSE disable_keyboard
        /\ last_activity' = IF notice THEN now ELSE last_activity
        /\ inactive_count' = IF notice THEN inactive_count + 1 ELSE inactive_count
        /\ last_switch' = IF either_sw /\ ~both_sw
                          THEN (IF s1 THEN 1 ELSE 2)
                          ELSE last_switch
        /\ actions_ready' = IF both_sw THEN TRUE ELSE actions_ready
        /\ calls' = <<>>
        /\ pc' = IF pass_due(both_sw, either_sw, actions_ready)
                 THEN "direction" ELSE "stop"
        /\ tick_keys' = active_keys
        /\ reads' = IF changed THEN <<b1, b2, b3>> ELSE <<b1>>
        /\ UNCHANGED <<interval_history, smoothed_min_timeout_interval,
                       active_keys, sink_keys, stops>>

\* One iteration of the loop with every input free: clock advance, both raw
\* sensor values and the three reads of button.value.
Sample ==
    \E dt \in Dts, v1 \in Raw, v2 \in Raw, b1 \in BOOLEAN, b2 \in BOOLEAN, b3 \in BOOLEAN :
        /\ TimeOk(ctime + dt, PressTicks)
        /\ Tick(dt, v1, v2, b1, b2, b3)

\* One iteration with the button left alone (every read returns last_button),
\* explored over the longer span.
SampleRun ==
    \E dt \in Dts, v1 \in Raw, v2 \in Raw :
        /\ TimeOk(ctime + dt, RunTicks)
        /\ Tick(dt, v1, v2, last_button, last_button, last_button)

\* Variant of direction_keys: the opposite key is not released first.
direction_keys_norelease(K, ls, dk) ==
    IF ls = 2 THEN press_key(K, KeyW, dk)
    ELSE IF ls = 1 THEN press_key(K, KeyS, dk)
    ELSE K

\* Variant of direction_keys: a new candidate is ignored while the opposite
\* direction is held.
direction_keys_sticky(K, ls, dk) ==
    IF ls = 2 /\ KeyS \notin K.active THEN press_key(K, KeyW, dk)
    ELSE IF ls = 1 /\ KeyW \notin K.active THEN press_key(K, KeyS, dk)
    ELSE K

\* Variant of direction_keys: the two sensors' directions are exchanged.
direction_keys_swapped(K, ls, dk) ==
    IF ls = 1 THEN press_key(release_key(K, KeyS, dk), KeyW, dk)
    ELSE IF ls = 2 THEN press_key(release_key(K, KeyW, dk), KeyS, dk)
    ELSE K

\* Lines 254-263: the keys after the direction decision.
direction_keys(K, ls, dk) ==
    IF ls = 2 THEN press_key(release_key(K, KeyS, dk), KeyW, dk)
    ELSE IF ls = 1 THEN press_key(release_key(K, KeyW, dk), KeyS, dk)
    ELSE K

\* Lines 245-263: start of the action pass and the direction decision.
DetermineDirection ==
    LET K == direction_keys(KeyState, last_switch, disable_keyboard)
    IN  /\ pc = "direction"
        /\ actions_ready' = FALSE
        /\ inactive_count' = 1
        /\ active_keys' = K.active
        /\ sink_keys' = K.sink
        /\ calls' = K.calls
        /\ pc' = "speed"
        /\ stops' = 0
        /\ UNCHANGED <<ctime, switch1, switch2, last_button, button_state,
                       disable_keyboard, last_switch, interval_history,
                       last_activity, smoothed_min_timeout_interval, tick_keys, reads>>

\* Variant of sprint_keys: sprint ends only strictly above sprint_end.
sprint_keys_strict(K, avg, dk) ==
    IF disable_sprint THEN K
    ELSE IF avg <= sprint_start THEN press_key(K, KeySHIFT, dk)
    ELSE IF avg > sprint_end THEN release_key(K, KeySHIFT, dk)
    ELSE K

\* Lines 278-287: the keys after the sprint decision for mean interval avg.
sprint_keys(K, avg, dk) ==
    IF disable_sprint THEN K
    ELSE IF avg <= sprint_start THEN press_key(K, KeySHIFT, dk)
    ELSE IF avg >= sprint_end THEN release_key(K, KeySHIFT, dk)
    ELSE K

\* Lines 265-287: the speed decision, skipped while the history is empty.
DetermineSpeed ==
    LET interval_avg_sprint ==
            get_interval_avg_sprint(interval_history, sprint_smoothing, ctime)
        K == IF Len(interval_history) > 0
             THEN sprint_keys(KeyState, interval_avg_sprint, disable_keyboard)
             ELSE KeyState
    IN  /\ pc = "speed"
        /\ active_keys' = K.active
        /\ sink_keys' = K.sink
        /\ calls' = K.calls
        /\ pc' = "timeout"
        /\ UNCHANGED <<ctime, switch1, switch2, last_button, button_state,
                       disable_keyboard, last_switch, interval_history,
                       last_activity, inactive_count,
                       smoothed_min_timeout_interval, actions_ready,
                       tick_keys, stops, reads>>

\* Variant of smooth_timeout: below min_timeout the mean itself is taken, the
\* floor is missing.
smooth_timeout_nofloor(smoothed, avg) ==
    IF smoothed = 0 THEN Max(avg, max_timeout)
    ELSE IF smoothed > avg
         THEN (IF avg >= min_timeout
               THEN Max(avg, smoothed - stop_smoothing_scale)
               ELSE avg)
         ELSE smoothed

\* Lines 292-314: the smoothed stop timeout after a pass with mean interval avg.
smooth_timeout(smoothed, avg) ==
    IF smoothed = 0 THEN Max(avg, max_timeout)
    ELSE IF smoothed > avg
         THEN (IF avg >= min_timeout
               THEN Max(avg, smoothed - stop_smoothing_scale)
               ELSE min_timeout)
         ELSE smoothed

\* Lines 289-321: update the smoothed timeout (history not empty), then record
\* the event time.
SmoothTimeout ==
    LET interval_avg_stop ==
            get_interval_avg_sprint(interval_history, stop_smoothing, ctime)
    IN  /\ pc = "timeout"
        /\ smoothed_min_timeout_interval' =
               IF Len(interval_history) > 0
               THEN smooth_timeout(smoothed_min_timeout_interval, interval_avg_stop)
               ELSE smoothed_min_timeout_interval
        /\ interval_history' = Append(interval_history, ctime)
        /\ last_activity' = ctime
        /\ pc' = "stop"
        /\ UNCHANGED <<ctime, switch1, switch2, last_button, button_state,
                       disable_keyboard, last_switch, inactive_count,
                       actions_ready, active_keys, sink_keys, calls,
                       tick_keys, stops, reads>>

\* Variant of stop_condition: the comparison with the smoothed timeout is reversed.
stop_condition_reversed(smoothed, stop_avg, la, now) ==
    \/ smoothed # 0 /\ stop_avg < smoothed
    \/ la # 0 /\ now - la > max_timeout

\* Lines 328-329: the stop condition.
stop_condition(smoothed, stop_avg, la, now) ==
    \/ smoothed # 0 /\ stop_avg > smoothed
    \/ la # 0 /\ now - la > max_timeout

\* Variant of prune: the slice keeps the oldest entries.
prune_oldest(hist) ==
    IF Len(hist) > max_history THEN SubSeq(hist, 1, max_history) ELSE hist

\* Lines 336-338: keep the newest max_history entries.
prune(hist) ==
    IF Len(hist) > max_history THEN Last(hist, max_history) ELSE hist

\* Lines 323-338: stop detection (full_stop also clears the history and the
\* smoothed timeout), then the history prune.  The tick is over: of its button
\* readings only the last is remembered.
DetermineIfStopped ==
    LET stop_avg == get_interval_avg_sprint(interval_history, stop_smoothing, ctime)
        stopping == /\ stop_condition(smoothed_min_timeout_interval, stop_avg,
                                      last_activity, ctime)
                    /\ Cardinality(active_keys) > 0
        R == IF stopping
             THEN full_stop(KeyState)
             ELSE [keys |-> KeyState, history |-> interval_history,
                   smoothed |-> smoothed_min_timeout_interval]
    IN  /\ pc = "stop"
        /\ active_keys' = R.keys.active
        /\ sink_keys' = R.keys.sink
        /\ calls' = R.keys.calls
        /\ interval_history' = prune(R.history)
        /\ smoothed_min_timeout_interval' = R.smoothed
        /\ stops' = IF stopping THEN stops + 1 ELSE stops
        /\ reads' = <<reads[Len(reads)]>>
        /\ pc' = "loop"
        /\ UNCHANGED <<ctime, switch1, switch2, last_button, button_state,
                       disable_keyboard, last_switch, last_activity,
                       inactive_count, actions_ready, tick_keys>>

Next ==
    \/ Sample
    \/ DetermineDirection
    \/ DetermineSpeed
    \/ SmoothTimeout
    \/ DetermineIfStopped

Spec == Init /\ [][Next]_vars

NextRun ==
    \/ SampleRun
    \/ DetermineDirection
    \/ DetermineSpeed
    \/ SmoothTimeout
    \/ DetermineIfStopped

SpecRun == Init /\ [][NextRun]_vars


\* ---- steady forward pedalling -------------------------------------------

SteadyMs == 15                  \* loop iteration time of the steady scenario, in ms

\* The sensor readings of forward rotation, one step per iteration:
\* neither -> sensor 1 -> both -> sensor 2 -> neither.
steady_next(s1, s2) ==
    IF ~s1 /\ ~s2 THEN <<analog_threshold, analog_threshold - 1>>
    ELSE IF s1 /\ ~s2 THEN <<analog_threshold, analog_threshold>>
    ELSE IF s1 /\ s2 THEN <<0, analog_threshold>>
    ELSE <<0, 0>>

\* One iteration of the steady scenario: constant iteration time, so sensor
\* events arrive every 4 * SteadyMs; the button stays free.
SampleSteady ==
    \E b1 \in BOOLEAN, b2 \in BOOLEAN, b3 \in BOOLEAN :
        /\ TimeOk(ctime + Ms(SteadyMs), RunTicks)
        /\ Tick(Ms(SteadyMs), steady_next(switch1, switch2)[1],
                steady_next(switch1, switch2)[2], b1, b2, b3)

NextSteady ==
    \/ SampleSteady
    \/ DetermineDirection
    \/ DetermineSpeed
    \/ SmoothTimeout
    \/ DetermineIfStopped

SpecSteady == Init /\ [][NextSteady]_vars

\* ---- properties -----------------------------------------------------------

Direction(keys) == keys \cap {KeyW, KeyS}

\* Mean interval over the last w intervals ending now, from the definition:
\* (now - the timestamp w events back) / w.
WindowMean(hist, w, now) ==
    LET k == Min(w, Len(hist))
    IN  (now - hist[Len(hist) - k + 1]) \div k

\* C1: the tracked held-key set never contains both W and S.
C1NeverBothDirections == ~(KeyW \in active_keys /\ KeyS \in active_keys)

\* A pass that switched from S to W: S was released and W pressed.
C1Witness ==
    /\ pc = "speed" /\ last_switch = 2
    /\ KeyS \in tick_keys
    /\ active_keys = {KeyW}
    /\ calls = << <<"release", KeyS>>, <<"press", KeyW>> >>

\* C2 (as claimed): at the end of every tick, SHIFT is held only if W or S is
\* held too, also after passes that ran while last_switch was still None.
C2SprintOnlyWithDirection ==
    pc = "loop" => (KeySHIFT \in active_keys => Direction(active_keys) # {})

\* C3: in the speed step of a pass with non-empty history and sprint enabled,
\* mean <= sprint_start leaves SHIFT held, mean >= sprint_end leaves it not
\* held, and a mean strictly between keeps SHIFT as it was before the step.
C3SprintHysteresis ==
    [][(pc = "speed" /\ Len(interval_history) > 0 /\ ~disable_sprint) =>
         LET m == WindowMean(interval_history, sprint_smoothing, ctime)
         IN  /\ m <= sprint_start => KeySHIFT \in active_keys'
             /\ m >= sprint_end => KeySHIFT \notin active_keys'
             /\ (sprint_start < m /\ m < sprint_end) =>
                   (KeySHIFT \in active_keys' <=> KeySHIFT \in active_keys)]_vars

\* After the speed step, the mean lies between the thresholds and SHIFT, held
\* before the pass, is still held.
C3Witness ==
    /\ pc = "timeout" /\ Len(interval_history) > 0
    /\ sprint_start < WindowMean(interval_history, sprint_smoothing, ctime)
    /\ WindowMean(interval_history, sprint_smoothing, ctime) < sprint_end
    /\ KeySHIFT \in tick_keys /\ KeySHIFT \in active_keys

\* C4: full_stop executes at most once between two consecutive action passes,
\* and once it has executed no key is held until the next action pass.
C4StopOnce == stops <= 1 /\ (stops = 1 => active_keys = {})

\* A later tick of the same idle period: the stop condition still holds, the
\* stop has already executed and nothing is held.
C4Witness ==
    /\ pc = "loop" /\ stops = 1 /\ calls = <<>> /\ active_keys = {}
    /\ stop_condition(smoothed_min_timeout_interval,
                      get_interval_avg_sprint(interval_history, stop_smoothing, ctime),
                      last_activity, ctime)

\* C5 (as claimed): no key is held at the end of a tick on which more than
\* max_timeout has elapsed since the last sensor event.
C5HardStop ==
    (/\ pc = "loop" /\ interval_history # <<>>
     /\ ctime - interval_history[Len(interval_history)] > max_timeout)
    => active_keys = {}

\* C6 (as claimed): a pass that leaves the held set as it was issues no call
\* to the keyboard sink.
C6Idempotent ==
    (pc = "timeout" /\ active_keys = tick_keys) => calls = <<>>

\* C6 (amended): a pass that leaves the held set as it was issues no release
\* and no release_all; its only calls are presses of keys already held, and
\* none at all while the keyboard is disabled.
C6TrackedIdempotent ==
    (pc = "timeout" /\ active_keys = tick_keys) =>
        /\ \A i \in 1..Len(calls) :
               calls[i][1] = "press" /\ calls[i][2] \in tick_keys
        /\ disable_keyboard => calls = <<>>

\* A pass confirming W and SHIFT, both already held: both presses are re-sent.
C6Witness ==
    /\ pc = "timeout" /\ tick_keys = {KeyW, KeySHIFT}
    /\ active_keys = tick_keys
    /\ calls = << <<"press", KeyW>>, <<"press", KeySHIFT>> >>

\* C7: at the end of a tick the history holds at most max_history entries, and
\* whenever entries are dropped the newest ones remain, in arrival order.
C7BoundedFifo ==
    [][/\ pc' = "loop" => Len(interval_history') <= max_history
       /\ Len(interval_history') < Len(interval_history) =>
              interval_history' = Last(interval_history, Len(interval_history'))]_vars

\* The history has overflowed and the prune is about to drop the oldest entry.
C7Witness ==
    /\ pc = "stop" /\ Len(interval_history) = max_history + 1
    /\ ~(/\ stop_condition(smoothed_min_timeout_interval,
                           get_interval_avg_sprint(interval_history, stop_smoothing, ctime),
                           last_activity, ctime)
         /\ active_keys # {})

\* C8: the held direction changes only in the direction step of an action pass
\* that follows a completed sensor event (actions_ready set, neither sensor
\* active) or in a step that executes full_stop; every other step, button and
\* idle-notice processing included, leaves it unchanged.
C8DirectionFrame ==
    [][(/\ ~(pc = "direction" /\ actions_ready /\ ~switch1 /\ ~switch2)
        /\ ~(pc = "stop" /\ calls' = Append(calls, <<"release_all">>)))
       => Direction(active_keys') = Direction(active_keys)]_vars

\* W was pressed on the sink while input was enabled, the button then disabled
\* input, and at the end of a tick without any sink call W is still held.
C8Witness ==
    /\ pc = "loop" /\ calls = <<>>
    /\ disable_keyboard /\ KeyW \in sink_keys
    /\ active_keys = tick_keys /\ Direction(active_keys) = {KeyW}

\* C9 (as claimed): while W is held, a single pass whose candidate is Reverse
\* leaves W held.
C9SmoothedDirection ==
    [][(pc = "direction" /\ KeyW \in active_keys /\ last_switch = 1)
       => KeyW \in active_keys']_vars

\* C9 (amended): while W is held, a single pass whose candidate is Reverse
\* (last_switch = 1) releases W and holds S in that same pass.
C9ImmediateDirection ==
    [][(pc = "direction" /\ KeyW \in active_keys /\ last_switch = 1)
       => (KeyW \notin active_keys' /\ KeyS \in active_keys')]_vars

\* A pass has just reversed a committed Forward on one Reverse candidate.
C9Witness ==
    /\ pc = "speed" /\ last_switch = 1
    /\ KeyW \in tick_keys /\ Direction(active_keys) = {KeyS}

\* C10: under steady forward pedalling below sprint_start, from the second
\* event on the held set is exactly {W, SHIFT}; no stop ever executes and no
\* release is ever issued.
C10SteadySprint ==
    /\ Len(interval_history) >= 2 => active_keys = {KeyW, KeySHIFT}
    /\ stops = 0
    /\ \A i \in 1..Len(calls) : calls[i][1] = "press"

\* The steady state after the history has filled up and been pruned.
C10Witness ==
    /\ pc = "loop" /\ Len(interval_history) = max_history
    /\ interval_history[1] > Tk(StartTicks) + 4 * Ms(SteadyMs)
    /\ active_keys = {KeyW, KeySHIFT}
    /\ smoothed_min_timeout_interval = min_timeout

\* C11 (as claimed): an action pass that finds the smoothed timeout set lowers
\* it by at most stop_smoothing_scale.
C11BoundedDecay ==
    [][(pc = "timeout" /\ smoothed_min_timeout_interval # 0) =>
         smoothed_min_timeout_interval' >=
             smoothed_min_timeout_interval - stop_smoothing_scale]_vars

\* C12: the smoothed timeout, whenever set, is at least min_timeout; a pass
\* with non-empty history that finds it unset sets it to the larger of the
\* rolling mean and max_timeout.
C12TimeoutFloor ==
    [][/\ smoothed_min_timeout_interval' # 0 =>
              smoothed_min_timeout_interval' >= min_timeout
       /\ (/\ pc = "timeout" /\ smoothed_min_timeout_interval = 0
           /\ Len(interval_history) > 0) =>
              smoothed_min_timeout_interval' =
                  Max(WindowMean(interval_history, stop_smoothing, ctime), max_timeout)]_vars

\* The timeout has been initialised and has reached the floor in a later pass.
C12Witness ==
    /\ pc = "stop" /\ Len(interval_history) >= 3
    /\ smoothed_min_timeout_interval = min_timeout
    /\ WindowMean(interval_history, stop_smoothing, ctime) < min_timeout

\* C13: actions_ready is raised only by a tick that samples both sensors
\* active; the first later tick that samples neither active runs the action
\* pass, which clears it; a tick does not run the pass when the signal is
\* clear or a sensor is active.
C13OneShotSignal ==
    [][/\ (pc = "loop" /\ ~actions_ready /\ actions_ready') => (switch1' /\ switch2')
       /\ (pc = "loop" /\ actions_ready /\ ~switch1' /\ ~switch2') => pc' = "direction"
       /\ (pc = "loop" /\ pc' = "direction") =>
              (actions_ready /\ actions_ready' /\ ~switch1' /\ ~switch2')
       /\ pc = "direction" => ~actions_ready'
       /\ (pc # "loop" /\ pc # "direction") => actions_ready' = actions_ready]_vars

\* A second action pass has consumed the signal raised after the first one.
C13Witness ==
    /\ pc = "speed" /\ ~actions_ready /\ ~switch1 /\ ~switch2
    /\ Len(interval_history) = 1

\* C14 (as claimed): every step of an action pass that runs with an empty
\* interval history leaves the held keys (direction and sprint) as they were
\* and leaves the smoothed timeout unset.
C14DeferredDecision ==
    [][(pc \in {"direction", "speed", "timeout"} /\ interval_history = <<>>) =>
         /\ active_keys' = active_keys
         /\ smoothed_min_timeout_interval' = 0]_vars

\* C15: a tick on which the stop condition holds with a key held ends with no
\* key held (tracked or on the sink), release_all as the last call to the
\* sink, an empty interval history (an event recorded earlier in the same tick
\* is dropped too) and the smoothed timeout unset.
C15StopPostcondition ==
    [][(/\ pc = "stop" /\ active_keys # {}
        /\ stop_condition(smoothed_min_timeout_interval,
                          get_interval_avg_sprint(interval_history, stop_smoothing, ctime),
                          last_activity, ctime)) =>
         /\ pc' = "loop"
         /\ active_keys' = {} /\ sink_keys' = {}
         /\ calls' # <<>> /\ calls'[Len(calls')] = <<"release_all">>
         /\ interval_history' = <<>>
         /\ smoothed_min_timeout_interval' = 0]_vars

\* A stop on the very tick of an action pass: the pass pressed a key and
\* recorded the event, the stop released everything and cleared the record.
C15Witness ==
    /\ pc = "loop" /\ stops = 1
    /\ Len(calls) > 1 /\ calls[1][1] = "press"
    /\ calls[Len(calls)] = <<"release_all">>
    /\ last_activity = ctime
    /\ active_keys = {} /\ interval_history = <<>>
    /\ smoothed_min_timeout_interval = 0

\* C16 (as claimed): when the direction step of an action pass inverts the
\* held direction key (W to S or S to W), the interval history is empty when
\* the speed step of that pass runs.
C16ReversalClearsHistory ==
    (/\ pc = "speed"
     /\ Direction(tick_keys) # {} /\ Direction(active_keys) # {}
     /\ Direction(tick_keys) # Direction(active_keys))
    => interval_history = <<>>

\* C17: last_switch names the sensor most recently sampled as the only active
\* one, and the direction step commits the direction from it: W held and S not
\* when it is 2, S held and W not when it is 1, nothing changed when it is
\* None.
C17DirectionFromLastSwitch ==
    [][/\ pc = "loop" =>
              last_switch' = IF switch1' /\ ~switch2' THEN 1
                             ELSE IF switch2' /\ ~switch1' THEN 2
                             ELSE last_switch
       /\ pc # "loop" => last_switch' = last_switch
       /\ (pc = "direction" /\ last_switch = 2) =>
              (KeyW \in active_keys' /\ KeyS \notin active_keys')
       /\ (pc = "direction" /\ last_switch = 1) =>
              (KeyS \in active_keys' /\ KeyW \notin active_keys')
       /\ (pc = "direction" /\ last_switch = 0) =>
              (active_keys' = active_keys /\ sink_keys' = sink_keys)]_vars

\* A pass with last_switch = 1 taken while W was held: W is released and S
\* pressed.
C17Witness ==
    /\ pc = "speed" /\ last_switch = 1
    /\ tick_keys = {KeyW} /\ active_keys = {KeyS}
    /\ calls = << <<"release", KeyW>>, <<"press", KeyS>> >>

\* C18 (as claimed): at the end of every tick on which input is enabled, the
\* keys held on the keyboard sink are exactly the tracked set active_keys, and
\* W and S are never both held on the sink.
C18SinkMatchesTracked ==
    /\ (pc = "loop" /\ ~disable_keyboard) => sink_keys = active_keys
    /\ ~({KeyW, KeyS} \subseteq sink_keys)

\* C19: while input is disabled no press and no single-key release reaches the
\* keyboard sink (only release_all may, so the sink's held set can only be
\* emptied), and the direction step still updates the tracked set.
C19DisabledSilent ==
    [][disable_keyboard' =>
         /\ \A i \in 1..Len(calls') : calls'[i] = <<"release_all">>
         /\ sink_keys' \in {sink_keys, {}}
         /\ (pc = "direction" /\ last_switch = 2) => KeyW \in active_keys'
         /\ (pc = "direction" /\ last_switch = 1) => KeyS \in active_keys']_vars

\* A reversal pass made while disabled: the tracked set went from S to W, the
\* sink received no call and still holds the S pressed before the toggle.
C19Witness ==
    /\ disable_keyboard /\ pc = "speed"
    /\ tick_keys = {KeyS} /\ active_keys = {KeyW}
    /\ sink_keys = {KeyS} /\ calls = <<>>

\* Pressed-to-released transitions in a sequence of button readings (the
\* button pulls down: TRUE is pressed).
Releases(seq) ==
    Cardinality({i \in 1..(Len(seq) - 1) : seq[i] /\ ~seq[i + 1]})

\* C20 (as claimed): on every tick, button_state flips once for each
\* pressed-to-released transition in the sequence of readings (the previous
\* reading followed by this tick's reads of button.value), and not otherwise.
C20ToggleOncePerRelease ==
    [][/\ pc = "loop" =>
              (IF button_state' # button_state THEN 1 ELSE 0) =
                  Releases(reads \o reads')
       /\ pc # "loop" => button_state' = button_state]_vars

====
